---- MODULE Spec2Model ----
(***************************************************************************)
(* Model of proton-filters: the Express backend that keeps one JSON file   *)
(* of filter records per user-collection (backend/src/index.ts,            *)
(* backend/src/storage.ts) and the folder/label conflict validator that    *)
(* exists twice, on the server and in the filter form of the frontend.     *)
(*                                                                         *)
(* A JavaScript string is a sequence of one-character strings, so that     *)
(* toLowerCase, trim and split('/') are computed, not assumed.             *)
(***************************************************************************)
EXTENDS Integers, Sequences, FiniteSets, TLC

VARIABLES
    files,      \* database name -> the array stored in filters-<database>.json
    nextId,     \* the next value generateId() returns (it never repeats)
    now,        \* the clock read by new Date() (it stands still here)
    resp,       \* the last HTTP response, with a note of the request it answers
    vcase       \* the last evaluation of a pure function (the two validators,
                \* or the script generator) on one input

vars == <<files, nextId, now, resp, vcase>>

------------------------------------------------------------------------------
(* Bounds of the model *)

MaxIds == 2         \* identifiers generateId() hands out
MaxOthers == 2      \* records of the collection a validator is run against
MaxClock == 2       \* readings of the clock that differ from the first
MaxFrom == 2        \* from patterns of a record the generator is run on

------------------------------------------------------------------------------
(* JavaScript values *)

\* undefined (what Array.prototype.find returns when nothing matches); it is
\* no string of the model, whose elements are all single characters.
Undefined == <<"#undefined">>

\* null, as in expirationDays: number | null
Null == <<"#null">>

Range(s) == {s[i] : i \in DOMAIN s}

Min(S) == CHOOSE x \in S : \A y \in S : x <= y

\* Truthiness of a string or undefined: if (x) { ... }
Truthy(v) == v # Undefined /\ v # <<>>

\* Array.prototype.find: the first element (in array order) among those at
\* the indexes hits, where the callback holds; undefined when there is none
Find(arr, hits) == IF hits = {} THEN Undefined ELSE arr[Min(hits)]

\* Array.prototype.flatMap over records' label arrays
RECURSIVE FlatLabels(_)
FlatLabels(arr) ==
    IF arr = <<>> THEN <<>> ELSE Head(arr).labels \o FlatLabels(Tail(arr))

\* UTF-16 code units of the characters the model uses
CodeUnit(c) ==
    CASE c = " " -> 32
      [] c = "/" -> 47
      [] c = "A" -> 65
      [] c = "W" -> 87
      [] c = "X" -> 88
      [] c = "a" -> 97
      [] c = "w" -> 119
      [] c = "x" -> 120

ToLowerChar(c) ==
    CASE c = "A" -> "a"
      [] c = "W" -> "w"
      [] c = "X" -> "x"
      [] OTHER -> c

\* String.prototype.toLowerCase
toLowerCase(s) == [i \in DOMAIN s |-> ToLowerChar(s[i])]

\* String.prototype.trim: drops leading and trailing white space
trim(s) ==
    LET solid == {i \in DOMAIN s : s[i] # " "}
    IN  IF solid = {} THEN <<>>
        ELSE SubSeq(s, Min(solid), CHOOSE i \in solid : \A j \in solid : j <= i)

\* String.prototype.split('/'): the parts between the slashes, in order
RECURSIVE SplitSlash(_, _)
SplitSlash(s, part) ==
    IF s = <<>> THEN <<part>>
    ELSE IF Head(s) = "/" THEN <<part>> \o SplitSlash(Tail(s), <<>>)
    ELSE SplitSlash(Tail(s), Append(part, Head(s)))

\* The default comparison of Array.prototype.sort: by UTF-16 code units
RECURSIVE StrLess(_, _)
StrLess(s, t) ==
    IF t = <<>> THEN FALSE
    ELSE IF s = <<>> THEN TRUE
    ELSE IF Head(s) # Head(t) THEN CodeUnit(Head(s)) < CodeUnit(Head(t))
    ELSE StrLess(Tail(s), Tail(t))

\* Array.from(new Set(arr)).sort(): the distinct elements in sorted order
RECURSIVE SortedSeq(_)
SortedSeq(S) ==
    IF S = {} THEN <<>>
    ELSE LET least == CHOOSE x \in S : \A y \in S \ {x} : StrLess(x, y)
         IN  <<least>> \o SortedSeq(S \ {least})

UniqueSorted(arr) == SortedSeq(Range(arr))

------------------------------------------------------------------------------
(* backend/src/index.ts *)

\* getFolderLeafName without the split
getFolderLeafNameWholePath(folderPath) == folderPath

\* Get the leaf name of a folder path (e.g., "Work/Projects" -> "Projects")
getFolderLeafName(folderPath) ==
    IF folderPath = <<>> THEN <<>>
    ELSE LET parts == SplitSlash(folderPath, <<>>) IN parts[Len(parts)]

\* What validateFolderLabelConflict returns: null, or one of three messages
\* built from a template and the two names it quotes.
NoConflict == [template |-> "null", folder |-> <<>>, label |-> <<>>]

IsError(msg) == msg # NoConflict

\* excludeId?: string, left out by the create handler (undefined)
NoId == 0

\* Check 1 comparing the labels as they are written
conflictingLabelNoCase(existingLabels, folderLeaf) ==
    Find(existingLabels,
         {i \in DOMAIN existingLabels : existingLabels[i] = folderLeaf})

\* Check 1, line 45: the first label of the other filters that is the folder leaf
conflictingLabelOfOthers(existingLabels, folderLeaf) ==
    Find(existingLabels,
         {i \in DOMAIN existingLabels : toLowerCase(existingLabels[i]) = folderLeaf})

\* Check 2, lines 53-55: the first folder leaf of the other filters that is the label
conflictingFolderOfOthers(existingFolderLeafs, label) ==
    Find(existingFolderLeafs,
         {i \in DOMAIN existingFolderLeafs :
              toLowerCase(existingFolderLeafs[i]) = toLowerCase(label)})

\* Check 3 finding nothing
conflictingOwnLabelSkipped(labels, folderLeaf) == Undefined

\* Check 3, line 63: the first of the filter's own labels that is the folder leaf

conflictingOwnLabel(labels, folderLeaf) ==
    Find(labels, {i \in DOMAIN labels : toLowerCase(labels[i]) = folderLeaf})

\* The validator with the check within the filter made first
validateFolderLabelConflictOwnFirst(targetFolder, labels, allFilters, excludeId) ==
    LET otherFilters == SelectSeq(allFilters, LAMBDA f : f.id # excludeId)
        leafs == [i \in DOMAIN otherFilters |->
                      getFolderLeafName(otherFilters[i].targetFolder)]
        existingFolderLeafs == SelectSeq(leafs, LAMBDA name : name # <<>>)
        existingLabels == FlatLabels(otherFilters)
        folderLeaf == toLowerCase(getFolderLeafName(targetFolder))
        conflictingLabel1 == conflictingLabelOfOthers(existingLabels, folderLeaf)
        hits2 == {i \in DOMAIN labels :
                      Truthy(conflictingFolderOfOthers(existingFolderLeafs, labels[i]))}
        conflictingLabel3 == conflictingOwnLabel(labels, folderLeaf)
    IN  IF Truthy(folderLeaf) /\ Len(labels) > 0 /\ Truthy(conflictingLabel3)
        THEN [template |-> "folder conflicts with label",
              folder |-> getFolderLeafName(targetFolder),
              label |-> conflictingLabel3]
        ELSE IF Truthy(folderLeaf) /\ Truthy(conflictingLabel1)
        THEN [template |-> "folder conflicts with label of another filter",
              folder |-> getFolderLeafName(targetFolder),
              label |-> conflictingLabel1]
        ELSE IF hits2 # {}
        THEN [template |-> "label conflicts with folder of another filter",
              folder |-> conflictingFolderOfOthers(existingFolderLeafs,
                                                   labels[Min(hits2)]),
              label |-> labels[Min(hits2)]]
        ELSE NoConflict

\* Validate that folder name doesn't conflict with labels (Proton Mail limitation)
validateFolderLabelConflict(targetFolder, labels, allFilters, excludeId) ==
    LET otherFilters == SelectSeq(allFilters, LAMBDA f : f.id # excludeId)
        leafs == [i \in DOMAIN otherFilters |->
                      getFolderLeafName(otherFilters[i].targetFolder)]
        existingFolderLeafs == SelectSeq(leafs, LAMBDA name : name # <<>>)
        existingLabels == FlatLabels(otherFilters)
        folderLeaf == toLowerCase(getFolderLeafName(targetFolder))
        conflictingLabel1 == conflictingLabelOfOthers(existingLabels, folderLeaf)
        \* the labels, in order, for which the loop of check 2 would return
        hits2 == {i \in DOMAIN labels :
                      Truthy(conflictingFolderOfOthers(existingFolderLeafs, labels[i]))}
        conflictingLabel3 == conflictingOwnLabel(labels, folderLeaf)
    IN  IF Truthy(folderLeaf) /\ Truthy(conflictingLabel1)
        THEN [template |-> "folder conflicts with label of another filter",
              folder |-> getFolderLeafName(targetFolder),
              label |-> conflictingLabel1]
        ELSE IF hits2 # {}
        THEN [template |-> "label conflicts with folder of another filter",
              folder |-> conflictingFolderOfOthers(existingFolderLeafs,
                                                   labels[Min(hits2)]),
              label |-> labels[Min(hits2)]]
        ELSE IF Truthy(folderLeaf) /\ Len(labels) > 0 /\ Truthy(conflictingLabel3)
        THEN [template |-> "folder conflicts with label",
              folder |-> getFolderLeafName(targetFolder),
              label |-> conflictingLabel3]
        ELSE NoConflict

\* Validate that filter name is unique (Proton Mail limitation): TRUE when a
\* duplicate is found, i.e. when the function returns a message.
validateUniqueName(name, filters, excludeId) ==
    LET trimmedName == toLowerCase(trim(name))
    IN  \E i \in DOMAIN filters :
            /\ toLowerCase(filters[i].name) = trimmedName
            /\ filters[i].id # excludeId

------------------------------------------------------------------------------
(* frontend: components/FilterForm.tsx and FormPage of App.tsx *)

\* FilterForm.tsx: Get the leaf name of a folder path
formGetFolderLeafName(folderPath) ==
    IF folderPath = <<>> THEN <<>>
    ELSE LET parts == SplitSlash(folderPath, <<>>) IN parts[Len(parts)]

\* FilterForm.tsx: ValidationResult of an accepted candidate
NoValidationError ==
    [error |-> NoConflict, conflictingLabel |-> Null, conflictType |-> "null"]

\* FilterForm.tsx: validateFolderLabelConflict of the form (leafNames is its
\* parameter existingFolderLeafNames)
formValidateFolderLabelConflict(targetFolder, labels, leafNames, existingLabels) ==
    LET folderLeaf == toLowerCase(formGetFolderLeafName(targetFolder))
        conflictingLabel1 ==
            Find(existingLabels,
         {i \in DOMAIN existingLabels : toLowerCase(existingLabels[i]) = folderLeaf})
        conflictingFolder(label) ==
            Find(leafNames,
                 {i \in DOMAIN leafNames :
                      toLowerCase(leafNames[i]) = toLowerCase(label)})
        hits2 == {i \in DOMAIN labels : Truthy(conflictingFolder(labels[i]))}
        conflictingLabel3 ==
            Find(labels, {i \in DOMAIN labels : toLowerCase(labels[i]) = folderLeaf})
    IN  IF Truthy(folderLeaf) /\ Truthy(conflictingLabel1)
        THEN [error |-> [template |-> "folder conflicts with label of another filter",
                         folder |-> formGetFolderLeafName(targetFolder),
                         label |-> conflictingLabel1],
              conflictingLabel |-> conflictingLabel1,
              conflictType |-> "external-label"]
        ELSE IF hits2 # {}
        THEN [error |-> [template |-> "label conflicts with folder of another filter",
                         folder |-> conflictingFolder(labels[Min(hits2)]),
                         label |-> labels[Min(hits2)]],
              conflictingLabel |-> labels[Min(hits2)],
              conflictType |-> "external-folder"]
        ELSE IF Truthy(folderLeaf) /\ Len(labels) > 0 /\ Truthy(conflictingLabel3)
        THEN [error |-> [template |-> "folder conflicts with label",
                         folder |-> formGetFolderLeafName(targetFolder),
                         label |-> conflictingLabel3],
              conflictingLabel |-> conflictingLabel3,
              conflictType |-> "local"]
        ELSE NoValidationError

\* FormPage: unique labels from all other filters (excluding the current
\* filter if editing), sorted
availableLabels(filters, id) ==
    UniqueSorted(FlatLabels(SelectSeq(filters, LAMBDA f : f.id # id)))

\* FormPage's folder leaf names without the exclusion of the edited filter
existingFolderLeafNamesOfAll(filters, id) ==
    LET leafs == [i \in DOMAIN filters |->
                      IF filters[i].targetFolder = <<>> THEN <<>>
                      ELSE LET parts == SplitSlash(filters[i].targetFolder, <<>>)
                           IN  parts[Len(parts)]]
    IN  SelectSeq(leafs, LAMBDA name : name # <<>>)

\* FormPage: folder leaf names from all other filters
existingFolderLeafNames(filters, id) ==
    LET others == SelectSeq(filters, LAMBDA f : f.id # id)
        leafs == [i \in DOMAIN others |->
                      IF others[i].targetFolder = <<>> THEN <<>>
                      ELSE LET parts == SplitSlash(others[i].targetFolder, <<>>)
                           IN  parts[Len(parts)]]
    IN  SelectSeq(leafs, LAMBDA name : name # <<>>)

\* FilterForm: the validation memo, fed by FormPage
formValidation(targetFolder, labels, filters, id) ==
    formValidateFolderLabelConflict(targetFolder, labels,
                                    existingFolderLeafNames(filters, id),
                                    availableLabels(filters, id))

------------------------------------------------------------------------------
(* backend/src/storage.ts *)

\* loadUsers() without a users.json: the default user list
VALID_DATABASES == {"user1", "user2"}

\* generateId handing out the value it returned last once more
generateIdRepeats == IF nextId > 1 THEN nextId - 1 ELSE nextId

\* generateId: crypto.randomUUID(), a value never returned before
generateId == nextId

\* readFilters reading the first user's file whatever database is named
readFiltersOfFirstUser(database, readFails) ==
    IF readFails THEN <<>> ELSE files["user1"]

\* readFilters: the parsed file, or [] when the file does not exist and also
\* when reading or parsing it throws (the catch block).
readFilters(database, readFails) ==
    IF readFails THEN <<>> ELSE files[database]

\* writeFilters: the whole array replaces the file's content
writeFilters(database, filters) ==
    files' = [files EXCEPT ![database] = filters]

\* getDatabase: null (after answering 400) unless ?db= names a valid database
getDatabase(db) == db # "" /\ db \in VALID_DATABASES

------------------------------------------------------------------------------
(* Requests *)

\* ?db= of a request: the valid names, an unknown name, and none at all
DbInputs == VALID_DATABASES \cup {"nobody", ""}

Names == { <<"A">>, <<"a", " ">> }

Folders == { <<>>, <<"w", "/", "X">> }

LabelLists == { << <<"w">> >>, << <<"w">>, <<"x">> >> }

\* The body of a create or update request (CreateFilterData)
Bodies ==
    [name : Names,
     fromAddresses : {<<>>},
     toAddress : {<<>>},
     expirationDays : {Null},
     markRead : {FALSE},
     addYearLabel : {FALSE},
     targetFolder : Folders,
     labels : LabelLists]

\* A request refused for its ?db= is answered before its body is read
BodiesFor(db, bodies) ==
    IF getDatabase(db) THEN bodies ELSE {CHOOSE body \in bodies : TRUE}

Ids == 1..MaxIds

\* The identifiers of a set as an array
RECURSIVE IdArray(_)
IdArray(S) ==
    IF S = {} THEN <<>> ELSE <<Min(S)>> \o IdArray(S \ {Min(S)})

\* The body of a delete request: { ids } with ids an array (of any of the
\* identifiers, known or not, or one identifier twice), or anything else
DeleteBodies ==
    {[isArray |-> TRUE, ids |-> IdArray(S)] : S \in SUBSET Ids}
        \cup {[isArray |-> TRUE, ids |-> <<i, i>>] : i \in Ids}
        \cup {[isArray |-> FALSE, ids |-> <<>>]}

Reply(op, status, error, deleted, n, readFailed) ==
    [op |-> op, status |-> status, error |-> error, deleted |-> deleted,
     n |-> n, readFailed |-> readFailed]

\* The record built with the timestamp of the epoch instead of new Date()
MakeFilterStale(id, body) ==
    [id |-> id,
     name |-> body.name,
     fromAddresses |-> body.fromAddresses,
     toAddress |-> body.toAddress,
     expirationDays |-> body.expirationDays,
     markRead |-> body.markRead,
     addYearLabel |-> body.addYearLabel,
     targetFolder |-> body.targetFolder,
     labels |-> body.labels,
     updatedAt |-> 0]

\* The Filter literal of the create and update handlers (lines 119-130 and
\* 177-188): every field from the request body, updatedAt from the clock
MakeFilter(id, body) ==
    [id |-> id,
     name |-> body.name,
     fromAddresses |-> body.fromAddresses,
     toAddress |-> body.toAddress,
     expirationDays |-> body.expirationDays,
     markRead |-> body.markRead,
     addYearLabel |-> body.addYearLabel,
     targetFolder |-> body.targetFolder,
     labels |-> body.labels,
     updatedAt |-> now]

\* The create handler with the return after a 400 answer left out
PostFilterNoReturn(db, body, readFails) ==
    /\ nextId <= MaxIds
    /\ IF ~getDatabase(db)
       THEN /\ resp' = Reply("post", 400, "database", 0, 0, FALSE)
            /\ UNCHANGED <<files, nextId>>
       ELSE LET filters == readFilters(db, readFails)
                conflictError ==
                    validateFolderLabelConflict(body.targetFolder, body.labels,
                                                filters, NoId)
                nameError == validateUniqueName(body.name, filters, NoId)
                newFilter == MakeFilter(generateId, body)
            IN  /\ writeFilters(db, Append(filters, newFilter))
                /\ nextId' = nextId + 1
                /\ resp' = IF IsError(conflictError)
                           THEN Reply("post", 400, "conflict", 0, 0, readFails)
                           ELSE IF nameError
                           THEN Reply("post", 400, "name", 0, 0, readFails)
                           ELSE Reply("post", 201, "none", 0, 0, readFails)
    /\ UNCHANGED <<now, vcase>>

\* app.post('/api/filters')
PostFilter(db, body, readFails) ==
    /\ nextId <= MaxIds
    /\ IF ~getDatabase(db)
       THEN /\ resp' = Reply("post", 400, "database", 0, 0, FALSE)
            /\ UNCHANGED <<files, nextId>>
       ELSE LET filters == readFilters(db, readFails)
                conflictError ==
                    validateFolderLabelConflict(body.targetFolder, body.labels,
                                                filters, NoId)
                nameError == validateUniqueName(body.name, filters, NoId)
                newFilter == MakeFilter(generateId, body)
            IN  IF IsError(conflictError)
                THEN /\ resp' = Reply("post", 400, "conflict", 0, 0, readFails)
                     /\ UNCHANGED <<files, nextId>>
                ELSE IF nameError
                THEN /\ resp' = Reply("post", 400, "name", 0, 0, readFails)
                     /\ UNCHANGED <<files, nextId>>
                ELSE /\ writeFilters(db, Append(filters, newFilter))
                     /\ nextId' = nextId + 1
                     /\ resp' = Reply("post", 201, "none", 0, 0, readFails)
    /\ UNCHANGED <<now, vcase>>

\* filters.findIndex((f) => f.id === id): 0 stands for -1
findIndex(filters, id) ==
    LET hits == {i \in DOMAIN filters : filters[i].id = id}
    IN  IF hits = {} THEN 0 ELSE Min(hits)

\* app.put('/api/filters/:id')
PutFilter(db, id, body, readFails) ==
    /\ IF ~getDatabase(db)
       THEN /\ resp' = Reply("put", 400, "database", 0, 0, FALSE)
            /\ UNCHANGED files
       ELSE LET filters == readFilters(db, readFails)
                index == findIndex(filters, id)
                conflictError ==
                    validateFolderLabelConflict(body.targetFolder, body.labels,
                                                filters, id)
                nameError == validateUniqueName(body.name, filters, id)
                updatedFilter == MakeFilter(id, body)
            IN  IF index = 0
                THEN /\ resp' = Reply("put", 404, "not found", 0, 0, readFails)
                     /\ UNCHANGED files
                ELSE IF IsError(conflictError)
                THEN /\ resp' = Reply("put", 400, "conflict", 0, 0, readFails)
                     /\ UNCHANGED files
                ELSE IF nameError
                THEN /\ resp' = Reply("put", 400, "name", 0, 0, readFails)
                     /\ UNCHANGED files
                ELSE /\ writeFilters(db, [filters EXCEPT ![index] = updatedFilter])
                     /\ resp' = Reply("put", 200, "none", 0, 0, readFails)
    /\ UNCHANGED <<nextId, now, vcase>>

\* The count of the records kept, reported as the count deleted
deletedCountRemaining(filters, remainingFilters) == Len(remainingFilters)

\* line 210: const deletedCount = filters.length - remainingFilters.length
deletedCount(filters, remainingFilters) == Len(filters) - Len(remainingFilters)

\* app.delete('/api/filters')
DeleteFilters(db, body, readFails) ==
    /\ IF ~getDatabase(db)
       THEN /\ resp' = Reply("delete", 400, "database", 0, 0, FALSE)
            /\ UNCHANGED files
       ELSE IF ~body.isArray \/ Len(body.ids) = 0
       THEN /\ resp' = Reply("delete", 400, "ids", 0, 0, FALSE)
            /\ UNCHANGED files
       ELSE LET filters == readFilters(db, readFails)
                idsSet == Range(body.ids)
                remainingFilters == SelectSeq(filters, LAMBDA f : f.id \notin idsSet)
            IN  /\ writeFilters(db, remainingFilters)
                /\ resp' = Reply("delete", 200, "none",
                                 deletedCount(filters, remainingFilters),
                                 Len(body.ids), readFails)
    /\ UNCHANGED <<nextId, now, vcase>>

NoCase == [done |-> FALSE]

Init ==
    /\ files = [db \in VALID_DATABASES |-> <<>>]
    /\ nextId = 1
    /\ now = 0
    /\ resp = Reply("none", 0, "none", 0, 0, FALSE)
    /\ vcase = NoCase

\* The requests, handled one at a time, every read of a file succeeding
Next ==
    \/ \E db \in DbInputs : \E body \in BodiesFor(db, Bodies) :
           PostFilter(db, body, FALSE)
    \/ \E db \in DbInputs, id \in Ids : \E body \in BodiesFor(db, Bodies) :
           PutFilter(db, id, body, FALSE)
    \/ \E db \in DbInputs : \E body \in BodiesFor(db, DeleteBodies) :
           DeleteFilters(db, body, FALSE)

Spec == Init /\ [][Next]_vars

\* The same requests, where readFile may throw although the file is intact
NextReadFault ==
    \/ \E db \in DbInputs, readFails \in BOOLEAN :
           \E body \in BodiesFor(db, Bodies) : PostFilter(db, body, readFails)
    \/ \E db \in DbInputs, id \in Ids, readFails \in BOOLEAN :
           \E body \in BodiesFor(db, Bodies) : PutFilter(db, id, body, readFails)
    \/ \E db \in DbInputs, readFails \in BOOLEAN :
           \E body \in BodiesFor(db, DeleteBodies) :
               DeleteFilters(db, body, readFails)

SpecReadFault == Init /\ [][NextReadFault]_vars

------------------------------------------------------------------------------
(* The handlers under a clock that moves *)

\* Time passes between two requests
Tick ==
    /\ now < MaxClock
    /\ now' = now + 1
    /\ UNCHANGED <<files, nextId, resp, vcase>>

\* Two request bodies that differ in every field and do not collide
ClockBodyA ==
    [name |-> <<"A">>,
     fromAddresses |-> << <<"a", "@", "x">> >>,
     toAddress |-> <<>>,
     expirationDays |-> Null,
     markRead |-> FALSE,
     addYearLabel |-> FALSE,
     targetFolder |-> <<"w", "/", "X">>,
     labels |-> << <<"w">> >>]

ClockBodyB ==
    [name |-> <<"w">>,
     fromAddresses |-> <<>>,
     toAddress |-> <<"x", "@", "w">>,
     expirationDays |-> <<"7">>,
     markRead |-> TRUE,
     addYearLabel |-> TRUE,
     targetFolder |-> <<>>,
     labels |-> << <<"a">>, <<"w">> >>]

ClockBodies == {ClockBodyA, ClockBodyB}

\* Creates and updates, with time passing in between and reads that may fail
NextClock ==
    \/ Tick
    \/ \E db \in DbInputs : \E body \in BodiesFor(db, ClockBodies) :
           PostFilter(db, body, FALSE)
    \/ \E db \in DbInputs, id \in Ids, readFails \in BOOLEAN :
           \E body \in BodiesFor(db, ClockBodies) :
               PutFilter(db, id, body, readFails)

SpecClock == Init /\ [][NextClock]_vars

------------------------------------------------------------------------------
(* Two collections offered the same names, folders and labels *)

\* The request bodies of one name: any two of them collide in one collection,
\* by their name and some of them by folder against label as well
SameNameBodies == {body \in Bodies : body.name = <<"A">>}

NextSameName ==
    \/ \E db \in DbInputs, readFails \in BOOLEAN :
           \E body \in BodiesFor(db, SameNameBodies) :
               PostFilter(db, body, readFails)
    \/ \E db \in DbInputs, id \in Ids, readFails \in BOOLEAN :
           \E body \in BodiesFor(db, SameNameBodies) :
               PutFilter(db, id, body, readFails)
    \/ \E db \in DbInputs, readFails \in BOOLEAN :
           \E body \in BodiesFor(db, DeleteBodies) :
               DeleteFilters(db, body, readFails)

SpecSameName == Init /\ [][NextSameName]_vars

------------------------------------------------------------------------------
(* The save path of the form: FilterForm.handleSave and api/filters.ts *)

DigitChars == <<"0", "1", "2", "3", "4", "5", "6", "7", "8", "9">>

IsDigit(c) == \E d \in DOMAIN DigitChars : DigitChars[d] = c

DigitValue(c) == (CHOOSE d \in DOMAIN DigitChars : DigitChars[d] = c) - 1

\* The value of the longest prefix of decimal digits, after the digits acc
RECURSIVE DigitsValue(_, _)
DigitsValue(s, acc) ==
    IF s = <<>> \/ ~IsDigit(Head(s)) THEN acc
    ELSE DigitsValue(Tail(s), acc * 10 + DigitValue(Head(s)))

\* A JavaScript number that is an integer, or NaN
NaN == [nan |-> TRUE, value |-> 0]

\* parseInt(string, 10): leading white space is skipped, a sign is read, then
\* the longest prefix of digits; NaN when there is no digit
parseInt(string) ==
    LET solid == {i \in DOMAIN string : string[i] # " "}
        inputString == IF solid = {} THEN <<>>
                       ELSE SubSeq(string, Min(solid), Len(string))
        signed == inputString # <<>> /\ Head(inputString) \in {"+", "-"}
        digits == IF signed THEN Tail(inputString) ELSE inputString
    IN  IF digits = <<>> \/ ~IsDigit(Head(digits)) THEN NaN
        ELSE [nan |-> FALSE,
              value |-> IF Head(inputString) = "-" THEN 0 - DigitsValue(digits, 0)
                        ELSE DigitsValue(digits, 0)]

\* The decimal digits of a natural number
RECURSIVE Decimal(_)
Decimal(n) ==
    IF n < 10 THEN <<DigitChars[n + 1]>>
    ELSE Decimal(n \div 10) \o <<DigitChars[(n % 10) + 1]>>

\* JSON.stringify of a number, which the server's JSON parser reads back as
\* the same number: its decimal text, and null for NaN
JSONNumber(number) ==
    IF number.nan THEN Null
    ELSE IF number.value < 0 THEN <<"-">> \o Decimal(0 - number.value)
    ELSE Decimal(number.value)

\* What the number field "Expiration (days)" can hold: nothing, or the text
\* of a number (the attribute min: 1 does not keep any text out)
ExpirationInputs ==
    { <<>>, <<"7">>, <<"0">>, <<"-", "1">>, <<"1", ".", "5">>, <<".", "5">> }

\* FilterFormState as the user has filled it in
FormStates ==
    [name : { <<"A">>, <<"w">> },
     fromAddresses : { << <<"a", "@", "x">>, <<" ">> >> },
     toAddress : { <<>> },
     expirationDays : ExpirationInputs,
     markRead : {FALSE},
     addYearLabel : {FALSE},
     targetFolder : { <<>> },
     labels : { <<>> }]

\* FormPage: existing filter names, excluding the current filter if editing
existingFilterNames(filters, id) ==
    LET others == SelectSeq(filters, LAMBDA f : f.id # id)
    IN  [i \in DOMAIN others |-> others[i].name]

\* FilterForm: the nameError memo; TRUE when it holds a message
formNameError(name, names) ==
    /\ trim(name) # <<>>
    /\ \E i \in DOMAIN names : toLowerCase(names[i]) = toLowerCase(trim(name))

\* handleSave: the request body built from the form state
filterData(formState) ==
    [name |-> formState.name,
     fromAddresses |-> SelectSeq(formState.fromAddresses,
                                 LAMBDA addr : trim(addr) # <<>>),
     toAddress |-> formState.toAddress,
     expirationDays |-> IF Truthy(formState.expirationDays)
                        THEN JSONNumber(parseInt(formState.expirationDays))
                        ELSE Null,
     markRead |-> formState.markRead,
     addYearLabel |-> formState.addYearLabel,
     targetFolder |-> formState.targetFolder,
     labels |-> formState.labels]

\* A click on Save (enabled only without a validation or name error) in the
\* form opened on the collection db, for a new filter (id = NoId) or for the
\* filter id: handleSave, then createFilter or updateFilter, then the handler
handleSave(db, id, formState) ==
    LET filters == files[db]
    IN  /\ id = NoId \/ findIndex(filters, id) # 0
        /\ ~IsError(formValidation(formState.targetFolder, formState.labels,
                                   filters, id).error)
        /\ ~formNameError(formState.name, existingFilterNames(filters, id))
        /\ IF id # NoId
           THEN PutFilter(db, id, filterData(formState), FALSE)
           ELSE PostFilter(db, filterData(formState), FALSE)

\* Filters are created and edited through the form only
NextForm ==
    \E db \in VALID_DATABASES, id \in {NoId} \cup Ids, formState \in FormStates :
        handleSave(db, id, formState)

SpecForm == Init /\ [][NextForm]_vars

------------------------------------------------------------------------------
(* FilterForm: the form on screen, its Save button and the request it sends *)

\* The form while mounted is vcase = [done |-> TRUE, database, id, formState,
\* saving, inFlight]; inFlight holds the bodies of the save requests that have
\* been sent and whose promise has not settled. resp is the server's answer to
\* the request in flight, "none" until the server has answered.

\* const initialState: FilterFormState
initialState ==
    [name |-> <<>>, fromAddresses |-> << <<>> >>, toAddress |-> <<>>,
     expirationDays |-> <<>>, markRead |-> FALSE, addYearLabel |-> FALSE,
     targetFolder |-> <<>>, labels |-> <<>>]

\* filterToFormState(filter)
filterToFormState(filter) ==
    [name |-> filter.name,
     fromAddresses |-> IF Len(filter.fromAddresses) > 0
                       THEN filter.fromAddresses ELSE << <<>> >>,
     toAddress |-> filter.toAddress,
     expirationDays |-> IF filter.expirationDays # Null
                        THEN filter.expirationDays ELSE <<>>,
     markRead |-> filter.markRead,
     addYearLabel |-> filter.addYearLabel,
     targetFolder |-> filter.targetFolder,
     labels |-> filter.labels]

\* What the user types or picks in one field
FieldInputs ==
    ({"name"} \X { <<"A">>, <<"w">> })
        \cup ({"targetFolder"} \X { <<>>, <<"w">> })
        \cup ({"labels"} \X { <<>>, << <<"w">> >> })

\* The Save button disabled by the two checks only, also while saving
saveDisabledByChecksOnly(form) ==
    \/ IsError(formValidation(form.formState.targetFolder, form.formState.labels,
                              files[form.database], form.id).error)
    \/ formNameError(form.formState.name,
                     existingFilterNames(files[form.database], form.id))

\* disabled={saving || Boolean(validation.error) || Boolean(nameError)}
saveDisabled(form) ==
    \/ form.saving
    \/ IsError(formValidation(form.formState.targetFolder, form.formState.labels,
                              files[form.database], form.id).error)
    \/ formNameError(form.formState.name,
                     existingFilterNames(files[form.database], form.id))

\* FormPage mounts FilterForm for a new filter (id = NoId) or for filter id
MountForm(db, id) ==
    /\ vcase = NoCase
    /\ id = NoId \/ findIndex(files[db], id) # 0
    /\ vcase' = [done |-> TRUE,
                 database |-> db,
                 id |-> id,
                 formState |-> IF id = NoId THEN initialState
                               ELSE filterToFormState(
                                        files[db][findIndex(files[db], id)]),
                 saving |-> FALSE,
                 inFlight |-> <<>>]
    /\ UNCHANGED <<files, nextId, now, resp>>

\* handleChange(field, value)
handleChange(field, value) ==
    /\ vcase # NoCase
    /\ vcase.formState[field] # value
    /\ vcase' = [vcase EXCEPT !.formState[field] = value]
    /\ UNCHANGED <<files, nextId, now, resp>>

\* A click on Save, which a disabled button does not deliver: handleSave up
\* to its await, setSaving(true) and the request sent
ClickSave ==
    /\ vcase # NoCase
    /\ ~saveDisabled(vcase)
    /\ vcase' = [vcase EXCEPT !.saving = TRUE,
                              !.inFlight = Append(@, filterData(vcase.formState))]
    /\ resp' = Reply("none", 0, "none", 0, 0, FALSE)
    /\ UNCHANGED <<files, nextId, now>>

\* The server handles the request in flight
ServeSave ==
    /\ vcase # NoCase
    /\ vcase.inFlight # <<>>
    /\ resp.op = "none"
    /\ IF vcase.id # NoId
       THEN PutFilter(vcase.database, vcase.id, Head(vcase.inFlight), FALSE)
       ELSE PostFilter(vcase.database, Head(vcase.inFlight), FALSE)

\* handleSave after its await: on a response that is ok, navigate(returnTo)
\* unmounts the form; on any other response, or when fetch rejects before
\* the server has answered, the catch block runs setSaving(false)
SaveSettles ==
    /\ vcase # NoCase
    /\ vcase.inFlight # <<>>
    /\ vcase' = IF resp.status \in {200, 201}
                THEN NoCase
                ELSE [vcase EXCEPT !.saving = FALSE, !.inFlight = Tail(@)]
    /\ UNCHANGED <<files, nextId, now, resp>>

\* One user at the form of the first collection
NextFormSave ==
    \/ \E db \in {"user1"}, id \in {NoId} \cup Ids : MountForm(db, id)
    \/ \E input \in FieldInputs : handleChange(input[1], input[2])
    \/ ClickSave
    \/ ServeSave
    \/ SaveSettles

SpecFormSave == Init /\ [][NextFormSave]_vars

------------------------------------------------------------------------------
(* frontend: utils/generateSieveScript.ts *)

\* A text the generator builds is a sequence of pieces: each piece is either
\* a fragment of the generator's own text, kept whole, or one character of
\* the record's data.

\* Array.prototype.join: the texts of arr with the piece sep between them
RECURSIVE Join(_, _)
Join(arr, sep) ==
    IF arr = <<>> THEN <<>>
    ELSE IF Len(arr) = 1 THEN arr[1]
    ELSE arr[1] \o <<sep>> \o Join(Tail(arr), sep)

\* String.prototype.includes / Array.prototype.includes
includes(s, x) == \E i \in DOMAIN s : s[i] = x

\* `"${s}"`
Quote(s) == <<"\"">> \o s \o <<"\"">>

\* new Date(): the year and the formatted time the generator reads from it
Clocks ==
    { [year |-> <<"2", "0", "2", "6">>,
       timestamp |-> <<"Thu, Nov 5, 2026, 12:00 PM">>] }

\* lines 9-15 without the test for a year that is a label already
effectiveLabelsRepeatingYear(filter, currentYear) ==
    IF filter.addYearLabel THEN Append(filter.labels, currentYear)
    ELSE filter.labels

\* lines 9-15: effective labels (including year if enabled)
effectiveLabels(filter, currentYear) ==
    IF filter.addYearLabel /\ ~includes(filter.labels, currentYear)
    THEN Append(filter.labels, currentYear)
    ELSE filter.labels

\* lines 17-25 with fileinto required for a target folder only
requiresForFolderOnly(filter, currentYear) ==
    (IF Truthy(filter.targetFolder) THEN << <<"fileinto">> >> ELSE <<>>)
        \o << <<"imap4flags">> >>
        \o (IF filter.expirationDays # Null
            THEN << <<"vnd.proton.expire">> >> ELSE <<>>)

\* lines 17-25: required extensions
requires(filter, currentYear) ==
    (IF Truthy(filter.targetFolder)
           \/ Len(effectiveLabels(filter, currentYear)) > 0
     THEN << <<"fileinto">> >> ELSE <<>>)
        \o << <<"imap4flags">> >>
        \o (IF filter.expirationDays # Null
            THEN << <<"vnd.proton.expire">> >> ELSE <<>>)

\* lines 47-49 with the address-part left out of the test
domainConditionWholeAddress(domain) ==
    <<"address :contains \"from\" \"">> \o domain \o <<"\"">>

\* lines 47-49: domain patterns use :domain :contains matching
domainCondition(domain) ==
    <<"address :domain :contains \"from\" \"">> \o domain \o <<"\"">>

\* lines 32-49 with one :is test for each full address
fromConditionsPerAddress(fromAddresses) ==
    LET fullEmails == SelectSeq(fromAddresses, LAMBDA addr : includes(addr, "@"))
        domains == SelectSeq(fromAddresses, LAMBDA addr : ~includes(addr, "@"))
    IN  [i \in DOMAIN fullEmails |->
             <<"address :is \"from\" \"">> \o fullEmails[i] \o <<"\"">>]
            \o [i \in DOMAIN domains |-> domainCondition(domains[i])]

\* lines 32-49: the individual from conditions
fromConditions(fromAddresses) ==
    LET fullEmails == SelectSeq(fromAddresses, LAMBDA addr : includes(addr, "@"))
        domains == SelectSeq(fromAddresses, LAMBDA addr : ~includes(addr, "@"))
        addresses == Join([i \in DOMAIN fullEmails |-> Quote(fullEmails[i])], ", ")
    IN  (IF Len(fullEmails) = 1
         THEN << <<"address :is \"from\" \"">> \o fullEmails[1] \o <<"\"">> >>
         ELSE IF Len(fullEmails) > 1
         THEN << <<"address :is \"from\" [">> \o addresses \o <<"]">> >>
         ELSE <<>>)
            \o [i \in DOMAIN domains |-> domainCondition(domains[i])]

\* lines 27-61 with the to-condition put before the from-condition
conditionsToFirst(filter) ==
    LET from == fromConditions(filter.fromAddresses)
    IN  << <<"not hasflag \"\\\\Deleted\"">> >>
            \o (IF Truthy(filter.toAddress)
                THEN << <<"address :is \"to\" \"">> \o filter.toAddress \o <<"\"">> >>
                ELSE <<>>)
            \o (IF Len(filter.fromAddresses) > 0 /\ Len(from) = 1 THEN <<from[1]>>
                ELSE IF Len(filter.fromAddresses) > 0 /\ Len(from) > 1
                THEN << <<"anyof (">> \o Join(from, ", ") \o <<")">> >>
                ELSE <<>>)

\* lines 27-61: the conditions
conditions(filter) ==
    LET from == fromConditions(filter.fromAddresses)
    IN  << <<"not hasflag \"\\\\Deleted\"">> >>
            \o (IF Len(filter.fromAddresses) > 0 /\ Len(from) = 1 THEN <<from[1]>>
                ELSE IF Len(filter.fromAddresses) > 0 /\ Len(from) > 1
                THEN << <<"anyof (">> \o Join(from, ", ") \o <<")">> >>
                ELSE <<>>)
            \o (IF Truthy(filter.toAddress)
                THEN << <<"address :is \"to\" \"">> \o filter.toAddress \o <<"\"">> >>
                ELSE <<>>)

\* lines 82-87 with stop for a target folder only
terminatorForFolderOnly(filter, currentYear) ==
    IF Truthy(filter.targetFolder) THEN <<"stop;">> ELSE <<"keep;">>

\* lines 82-87: end with stop if we have any fileinto actions, otherwise keep
terminator(filter, currentYear) ==
    IF Truthy(filter.targetFolder)
           \/ Len(effectiveLabels(filter, currentYear)) > 0
    THEN <<"stop;">> ELSE <<"keep;">>

\* lines 68-70 never marking as read
addflagSeenNever(filter) == <<>>

\* lines 68-70: the mark-as-read action
addflagSeen(filter) ==
    IF filter.markRead THEN << <<"addflag \"\\\\Seen\";">> >> ELSE <<>>

\* lines 63-87 with the folder filed before the labels
actionsFolderFirst(filter, currentYear) ==
    LET labels == effectiveLabels(filter, currentYear)
    IN  (IF filter.expirationDays # Null
         THEN << <<"expire \"day\" \"">> \o filter.expirationDays \o <<"\";">> >>
         ELSE <<>>)
            \o addflagSeen(filter)
            \o (IF Truthy(filter.targetFolder)
                THEN << <<"fileinto \"">> \o filter.targetFolder \o <<"\";">> >>
                ELSE <<>>)
            \o [i \in DOMAIN labels |-> <<"fileinto \"">> \o labels[i] \o <<"\";">>]
            \o <<terminator(filter, currentYear)>>

\* lines 63-87: the actions (order matters: expire, addflag, labels, folder, stop)
actions(filter, currentYear) ==
    LET labels == effectiveLabels(filter, currentYear)
    IN  (IF filter.expirationDays # Null
         THEN << <<"expire \"day\" \"">> \o filter.expirationDays \o <<"\";">> >>
         ELSE <<>>)
            \o addflagSeen(filter)
            \o [i \in DOMAIN labels |-> <<"fileinto \"">> \o labels[i] \o <<"\";">>]
            \o (IF Truthy(filter.targetFolder)
                THEN << <<"fileinto \"">> \o filter.targetFolder \o <<"\";">> >>
                ELSE <<>>)
            \o <<terminator(filter, currentYear)>>

\* The generator with the require statement left out for a single extension
generateSieveScriptRequireSeveral(filter, clock) ==
    LET requireList == Join([i \in DOMAIN requires(filter, clock.year) |->
                                 Quote(requires(filter, clock.year)[i])], ", ")
        conditionStr == Join(conditions(filter), ",\n       ")
        acts == actions(filter, clock.year)
        lines ==
            << <<"# Filter: ">> \o filter.name,
               <<"# Generated: ">> \o clock.timestamp,
               <<>> >>
            \o (IF Len(requires(filter, clock.year)) > 1
                THEN << <<"require [">> \o requireList \o <<"];">>, <<>> >>
                ELSE <<>>)
            \o (IF Len(conditions(filter)) > 0
                THEN << <<"if allof (">> \o conditionStr \o <<") {">> >>
                ELSE << <<"if true {">> >>)
            \o [i \in DOMAIN acts |-> <<"    ">> \o acts[i]]
            \o << <<"}">>, <<>> >>
    IN  Join(lines, "\n")

\* The generator stamping the script with a time that is not its clock reading
generateSieveScriptOtherTime(filter, clock) ==
    LET requireList == Join([i \in DOMAIN requires(filter, clock.year) |->
                                 Quote(requires(filter, clock.year)[i])], ", ")
        conditionStr == Join(conditions(filter), ",\n       ")
        acts == actions(filter, clock.year)
        lines ==
            << <<"# Filter: ">> \o filter.name,
               <<"# Generated: ">> \o Decimal(now),
               <<>> >>
            \o (IF Len(requires(filter, clock.year)) > 0
                THEN << <<"require [">> \o requireList \o <<"];">>, <<>> >>
                ELSE <<>>)
            \o (IF Len(conditions(filter)) > 0
                THEN << <<"if allof (">> \o conditionStr \o <<") {">> >>
                ELSE << <<"if true {">> >>)
            \o [i \in DOMAIN acts |-> <<"    ">> \o acts[i]]
            \o << <<"}">>, <<>> >>
    IN  Join(lines, "\n")

\* generateSieveScript: the lines of the script, joined by line feeds
generateSieveScript(filter, clock) ==
    LET requireList == Join([i \in DOMAIN requires(filter, clock.year) |->
                                 Quote(requires(filter, clock.year)[i])], ", ")
        conditionStr == Join(conditions(filter), ",\n       ")
        acts == actions(filter, clock.year)
        lines ==
            << <<"# Filter: ">> \o filter.name,
               <<"# Generated: ">> \o clock.timestamp,
               <<>> >>
            \o (IF Len(requires(filter, clock.year)) > 0
                THEN << <<"require [">> \o requireList \o <<"];">>, <<>> >>
                ELSE <<>>)
            \o (IF Len(conditions(filter)) > 0
                THEN << <<"if allof (">> \o conditionStr \o <<") {">> >>
                ELSE << <<"if true {">> >>)
            \o [i \in DOMAIN acts |-> <<"    ">> \o acts[i]]
            \o << <<"}">>, <<>> >>
    IN  Join(lines, "\n")

------------------------------------------------------------------------------
(* The generator as a pure function of one record and one clock reading *)

\* From patterns: two full addresses, a bare domain, a domain written with @
GenPatterns ==
    { <<"a", "@", "x">>, <<"w", "@", "x">>, <<"x">>, <<"@", "x">> }

\* The arrays of at most n elements of S
RECURSIVE SeqsUpTo(_, _)
SeqsUpTo(S, n) ==
    IF n = 0 THEN { <<>> }
    ELSE LET shorter == SeqsUpTo(S, n - 1)
         IN  shorter \cup {Append(q, x) : q \in shorter, x \in S}

GenLabelLists ==
    { <<>>, << <<"w">> >>, << <<"w">>, <<"2", "0", "2", "6">> >>,
      << <<"2", "0", "2", "6">>, <<"w">> >> }

\* Well-typed records: the fields the generator reads, in all combinations
GenBodies ==
    [name : { <<"A">> },
     fromAddresses : SeqsUpTo(GenPatterns, MaxFrom),
     toAddress : { <<>>, <<"a", "@", "w">> },
     expirationDays : { Null, <<"7">> },
     markRead : BOOLEAN,
     addYearLabel : BOOLEAN,
     targetFolder : { <<>>, <<"w", "/", "X">> },
     labels : GenLabelLists]

\* The record of scenario A of the specification
ScenarioA ==
    [name |-> <<"A">>,
     fromAddresses |-> << <<"b", "o", "s", "s", "@", "e", "x", "a", "m", "p",
                            "l", "e", ".", "c", "o", "m">> >>,
     toAddress |-> <<>>,
     expirationDays |-> Null,
     markRead |-> TRUE,
     addYearLabel |-> FALSE,
     targetFolder |-> <<"W", "o", "r", "k">>,
     labels |-> <<>>]

\* A record with one from pattern and no folder, labels or flags
ScenarioB(pattern) ==
    [name |-> <<"A">>,
     fromAddresses |-> <<pattern>>,
     toAddress |-> <<>>,
     expirationDays |-> Null,
     markRead |-> FALSE,
     addYearLabel |-> FALSE,
     targetFolder |-> <<>>,
     labels |-> <<>>]

NewsletterDomain ==
    <<"n", "e", "w", "s", "l", "e", "t", "t", "e", "r", ".", "c", "o", "m">>

\* One evaluation of the generator, as FilterCard and FilterForm call it on a
\* record of the collection
Generate(filter, clock) ==
    /\ vcase' = [done |-> TRUE,
                 filter |-> filter,
                 clock |-> clock,
                 script |-> generateSieveScript(filter, clock)]
    /\ UNCHANGED <<files, nextId, now, resp>>

\* Each behaviour generates the script of one record
NextGenerate ==
    /\ vcase = NoCase
    /\ \E clock \in Clocks :
           \E body \in GenBodies \cup {ScenarioA, ScenarioB(NewsletterDomain),
                                       ScenarioB(<<"@">> \o NewsletterDomain)} :
               Generate(MakeFilter(1, body), clock)

SpecGenerate == Init /\ [][NextGenerate]_vars

------------------------------------------------------------------------------
(* The generator called twice on one record *)

\* The clock readings of a later call: the same as before, or a later year
LaterClocks ==
    Clocks \cup { [year |-> <<"2", "0", "2", "7">>,
                   timestamp |-> <<"Fri, Jan 1, 2027, 12:00 AM">>] }

\* ScriptDialog opened on a record: the first call of the generator
CallGenerator(filter, clock) ==
    /\ vcase = NoCase
    /\ vcase' = [done |-> TRUE,
                 filter |-> filter,
                 clock |-> clock,
                 script |-> generateSieveScript(filter, clock),
                 at |-> now,
                 again |-> <<>>]
    /\ UNCHANGED <<files, nextId, now, resp>>

\* The dialog rendered once more on the same record
CallGeneratorAgain(clock) ==
    /\ vcase # NoCase
    /\ vcase.again = <<>>
    /\ vcase' = [vcase EXCEPT !.again =
                     <<[clock |-> clock,
                        script |-> generateSieveScript(vcase.filter, clock),
                        at |-> now]>>]
    /\ UNCHANGED <<files, nextId, now, resp>>

\* Two calls on one record, with time passing on the server in between
NextRegenerate ==
    \/ Tick
    \/ \E clock \in Clocks :
           \E body \in {b \in GenBodies : Len(b.fromAddresses) <= 1} :
               CallGenerator(MakeFilter(1, body), clock)
    \/ \E clock \in LaterClocks : CallGeneratorAgain(clock)

SpecRegenerate == Init /\ [][NextRegenerate]_vars

------------------------------------------------------------------------------
(* The two validators as pure functions of one input *)

\* Folder paths: none, a top-level folder, a nested one, one ending in a slash
ValFolders == { <<>>, <<"x">>, <<"w", "/", "X">>, <<"w", "/">> }

\* Label arrays of the candidate; the empty string is a label the server
\* does not refuse
ValLabelLists ==
    { <<>>, << <<>> >>, << <<"x">> >>, << <<"X">> >>, << <<"w">> >>,
      << <<"w">>, <<"X">> >>, << <<"X">>, <<"x">> >>, << <<>>, <<"x">> >> }

\* Label arrays of the records already in the collection
ValOtherLabelLists ==
    { <<>>, << <<"x">> >>, << <<"X">> >>, << <<"w">>, <<"x">> >> }

ValBody(folder, labels) ==
    [name |-> <<"A">>, fromAddresses |-> <<>>, toAddress |-> <<>>,
     expirationDays |-> Null, markRead |-> FALSE, addYearLabel |-> FALSE,
     targetFolder |-> folder, labels |-> labels]

\* The collections of n records, the i-th with identifier i
ValCollections(n) ==
    {[i \in 1..n |-> MakeFilter(i, ValBody(fl[i][1], fl[i][2]))] :
        fl \in [1..n -> ValFolders \X ValOtherLabelLists]}

\* One evaluation: the server's validator on (candidate, collection,
\* excludeId) and the form's on what FormPage derives from the same
\* collection and the same :id (0 when creating).
Validate(targetFolder, labels, filters, id) ==
    /\ vcase' = [done |-> TRUE,
                 targetFolder |-> targetFolder,
                 labels |-> labels,
                 filters |-> filters,
                 id |-> id,
                 server |-> validateFolderLabelConflict(targetFolder, labels,
                                                        filters, id),
                 form |-> formValidation(targetFolder, labels, filters, id)]
    /\ UNCHANGED <<files, nextId, now, resp>>

\* Each behaviour evaluates one input
NextValidate ==
    /\ vcase = NoCase
    /\ \E n \in 0..MaxOthers : \E filters \in ValCollections(n) :
           \E id \in 0..n, targetFolder \in ValFolders, labels \in ValLabelLists :
               Validate(targetFolder, labels, filters, id)

SpecValidate == Init /\ [][NextValidate]_vars

------------------------------------------------------------------------------
(* The arrays behind the arguments of the two functions *)

\* The generator's array effectiveLabels handed to push, were it the record's own
effectiveLabelsArrayOfRecord(filter) == "labels"

\* [...filter.labels]: the array effectiveLabels names is a new one
effectiveLabelsArray(filter) == "effectiveLabels"

\* The arrays after generateSieveScript: the record's label array and the
\* array that effectiveLabels names; push appends to the latter
arraysAfterGenerate(filter, currentYear) ==
    LET spread == [labels |-> filter.labels, effectiveLabels |-> filter.labels]
        named == effectiveLabelsArray(filter)
    IN  IF filter.addYearLabel /\ ~includes(spread[named], currentYear)
        THEN [spread EXCEPT ![named] = Append(@, currentYear)]
        ELSE spread

\* The arrays after validateFolderLabelConflict: filter, map and flatMap
\* return new arrays, find and for-of only read
arraysAfterValidate(targetFolder, labels, allFilters, excludeId) ==
    LET otherFilters == SelectSeq(allFilters, LAMBDA f : f.id # excludeId)
        leafs == [i \in DOMAIN otherFilters |->
                      getFolderLeafName(otherFilters[i].targetFolder)]
    IN  [labels |-> labels,
         allFilters |-> allFilters,
         otherFilters |-> otherFilters,
         existingFolderLeafs |-> SelectSeq(leafs, LAMBDA name : name # <<>>),
         existingLabels |-> FlatLabels(otherFilters)]

NoArrays == <<>>

\* generateSieveScript(filter) and what its argument holds afterwards
CallGenerate(filter, clock) ==
    /\ vcase' = [done |-> TRUE,
                 call |-> "generateSieveScript",
                 filter |-> filter,
                 clock |-> clock,
                 script |-> generateSieveScript(filter, clock),
                 generated |-> arraysAfterGenerate(filter, clock.year),
                 validated |-> NoArrays]
    /\ UNCHANGED <<files, nextId, now, resp>>

\* validateFolderLabelConflict(...) and what its arguments hold afterwards
CallValidate(targetFolder, labels, allFilters, excludeId) ==
    /\ vcase' = [done |-> TRUE,
                 call |-> "validateFolderLabelConflict",
                 targetFolder |-> targetFolder,
                 labels |-> labels,
                 allFilters |-> allFilters,
                 validated |-> arraysAfterValidate(targetFolder, labels,
                                                   allFilters, excludeId),
                 generated |-> NoArrays]
    /\ UNCHANGED <<files, nextId, now, resp>>

\* Each behaviour makes one call of one of the two functions
NextArguments ==
    /\ vcase = NoCase
    /\ \/ \E clock \in Clocks :
              \E body \in {b \in GenBodies : Len(b.fromAddresses) <= 1} :
                  CallGenerate(MakeFilter(1, body), clock)
       \/ \E n \in 0..MaxOthers : \E filters \in ValCollections(n) :
              \E id \in {0, n}, targetFolder \in ValFolders, labels \in ValLabelLists :
                  CallValidate(targetFolder, labels, filters, id)

SpecArguments == Init /\ [][NextArguments]_vars

------------------------------------------------------------------------------
(* Two create requests, handled in either order *)

\* app.post('/api/filters') on the collection filters: the status of the
\* response and the collection written (the one read, when nothing is written)
postFilter(filters, body, id) ==
    IF IsError(validateFolderLabelConflict(body.targetFolder, body.labels,
                                           filters, NoId))
    THEN [status |-> 400, filters |-> filters]
    ELSE IF validateUniqueName(body.name, filters, NoId)
    THEN [status |-> 400, filters |-> filters]
    ELSE [status |-> 201, filters |-> Append(filters, MakeFilter(id, body))]

\* The collections that n or fewer accepted create requests leave
RECURSIVE CreatedCollections(_)
CreatedCollections(n) ==
    IF n = 0 THEN { <<>> }
    ELSE LET fewer == CreatedCollections(n - 1)
         IN  fewer \cup
                 {postFilter(p[1], p[2], Len(p[1]) + 1).filters :
                      p \in fewer \X Bodies}

\* Two create requests one after the other: the two statuses and the
\* collection they leave
postBoth(filters, first, second) ==
    LET one == postFilter(filters, first, Len(filters) + 1)
        two == postFilter(one.filters, second, Len(one.filters) + 1)
    IN  [statuses |-> <<one.status, two.status>>, filters |-> two.filters]

\* The candidates a and b created on the collection filters, a first and,
\* from the same collection, b first
PostInBothOrders(filters, a, b) ==
    /\ vcase' = [done |-> TRUE,
                 filters |-> filters,
                 a |-> a,
                 b |-> b,
                 ab |-> postBoth(filters, a, b),
                 ba |-> postBoth(filters, b, a)]
    /\ UNCHANGED <<files, nextId, now, resp>>

\* Each behaviour takes one collection and one pair of candidates
NextOrder ==
    /\ vcase = NoCase
    /\ \E filters \in CreatedCollections(MaxOthers - 1) :
           \E a \in Bodies, b \in Bodies :
               PostInBothOrders(filters, a, b)

SpecOrder == Init /\ [][NextOrder]_vars

------------------------------------------------------------------------------
(* From an accepted request to the script of the stored record *)

\* Requests whose folder, labels and year flag vary
YearBodies ==
    [name : { <<"A">>, <<"w">> },
     fromAddresses : { <<>> },
     toAddress : { <<>> },
     expirationDays : { Null },
     markRead : { FALSE },
     addYearLabel : BOOLEAN,
     targetFolder : { <<>>, <<"w">>, <<"w", "/", "2", "0", "2", "6">> },
     labels : { <<>>, << <<"W">> >>, << <<"2", "0", "2", "6">> >> }]

\* ScriptDialog opened on the i-th record of the list fetched from db
GenerateStored(db, i, clock) ==
    /\ vcase = NoCase
    /\ i \in DOMAIN files[db]
    /\ Generate(files[db][i], clock)

\* Records are created through the server; the script of a stored record
\* is generated once
NextStored ==
    \/ \E body \in YearBodies : vcase = NoCase /\ PostFilter("user1", body, FALSE)
    \/ \E i \in Ids, clock \in Clocks : GenerateStored("user1", i, clock)

SpecStored == Init /\ [][NextStored]_vars

------------------------------------------------------------------------------
(* Create requests whose awaits interleave *)

\* The create handler suspends at await readFilters(db) and at
\* await writeFilters(db, filters); between the two it runs without
\* suspension. While requests are under way vcase = [done |-> TRUE, posts],
\* each post with the point it has reached (pc), its body, its own filters
\* array and the status it has answered with (0 for none yet).

PostsUnderWay == IF vcase = NoCase THEN <<>> ELSE vcase.posts

\* A create request arrives and its handler starts to read the file
PostArrives(body) ==
    /\ Len(PostsUnderWay) < MaxIds
    /\ vcase' = [done |-> TRUE,
                 posts |-> Append(PostsUnderWay,
                                  [pc |-> "read", body |-> body,
                                   filters |-> <<>>, id |-> NoId, status |-> 0])]
    /\ UNCHANGED <<files, nextId, now, resp>>

\* readFilters resolves for the k-th request: lines 108 to 132, the two
\* checks, the new record pushed onto the array that was read
PostReads(db, k) ==
    /\ k \in DOMAIN PostsUnderWay
    /\ vcase.posts[k].pc = "read"
    /\ LET body == vcase.posts[k].body
           filters == readFilters(db, FALSE)
           refused ==
               \/ IsError(validateFolderLabelConflict(body.targetFolder,
                                                      body.labels, filters, NoId))
               \/ validateUniqueName(body.name, filters, NoId)
       IN  IF refused
           THEN /\ vcase' = [vcase EXCEPT !.posts[k].pc = "done",
                                          !.posts[k].status = 400]
                /\ resp' = Reply("post", 400, "refused", 0, 0, FALSE)
                /\ UNCHANGED nextId
           ELSE /\ vcase' = [vcase EXCEPT
                                !.posts[k].pc = "write",
                                !.posts[k].id = generateId,
                                !.posts[k].filters =
                                    Append(filters, MakeFilter(generateId, body))]
                /\ nextId' = nextId + 1
                /\ UNCHANGED resp
    /\ UNCHANGED <<files, now>>

\* writeFilters resolves for the k-th request, which answers 201
PostWrites(db, k) ==
    /\ k \in DOMAIN PostsUnderWay
    /\ vcase.posts[k].pc = "write"
    /\ writeFilters(db, vcase.posts[k].filters)
    /\ vcase' = [vcase EXCEPT !.posts[k].pc = "done", !.posts[k].status = 201]
    /\ resp' = Reply("post", 201, "none", 0, 0, FALSE)
    /\ UNCHANGED <<nextId, now>>

\* Create requests on the first collection, their steps in any order, with
\* time passing in between
NextInterleaved ==
    \/ Tick
    \/ \E body \in ClockBodies : PostArrives(body)
    \/ \E k \in Ids : PostReads("user1", k)
    \/ \E k \in Ids : PostWrites("user1", k)

SpecInterleaved == Init /\ [][NextInterleaved]_vars

------------------------------------------------------------------------------
(* frontend: App, the selected database and the list it fetches *)

\* While the App is mounted vcase = [done |-> TRUE, database, filters,
\* fetches]: the selected database, the list on screen and the fetchFilters
\* calls made so far, each with the database it asked for, the point it has
\* reached (pc) and the list the server answered with.

\* A fetchFilters call that has just been made
NewFetch(db) == [db |-> db, pc |-> "sent", data |-> <<>>]

\* The App mounts with the database remembered in localStorage; the effect
\* on [database] runs and calls fetchFilters(database)
MountApp(db) ==
    /\ vcase = NoCase
    /\ vcase' = [done |-> TRUE,
                 database |-> db,
                 filters |-> <<>>,
                 fetches |-> <<NewFetch(db)>>]
    /\ UNCHANGED <<files, nextId, now, resp>>

\* handleDatabaseChange(db): setDatabase(db), and the effect on [database]
\* runs again when the database has changed
handleDatabaseChange(db) ==
    /\ vcase # NoCase
    /\ db # vcase.database
    /\ Len(vcase.fetches) <= MaxIds
    /\ vcase' = [vcase EXCEPT !.database = db,
                              !.fetches = Append(@, NewFetch(db))]
    /\ UNCHANGED <<files, nextId, now, resp>>

\* app.get('/api/filters') answers the k-th call with the collection it reads
ServeFetch(k) ==
    /\ vcase # NoCase
    /\ k \in DOMAIN vcase.fetches
    /\ vcase.fetches[k].pc = "sent"
    /\ vcase' = [vcase EXCEPT !.fetches[k].pc = "answered",
                              !.fetches[k].data =
                                  readFilters(vcase.fetches[k].db, FALSE)]
    /\ UNCHANGED <<files, nextId, now, resp>>

\* The promise of the k-th call resolves: .then(setFilters)
FetchResolves(k) ==
    /\ vcase # NoCase
    /\ k \in DOMAIN vcase.fetches
    /\ vcase.fetches[k].pc = "answered"
    /\ vcase' = [vcase EXCEPT !.filters = vcase.fetches[k].data,
                              !.fetches[k].pc = "done"]
    /\ UNCHANGED <<files, nextId, now, resp>>

\* Records are created, then the App is opened and the user switches
\* between the databases while the responses arrive in any order
NextClient ==
    \/ \E db \in VALID_DATABASES, body \in ClockBodies :
           vcase = NoCase /\ PostFilter(db, body, FALSE)
    \/ \E db \in VALID_DATABASES : MountApp(db)
    \/ \E db \in VALID_DATABASES : handleDatabaseChange(db)
    \/ \E k \in 1..(MaxIds + 1) : ServeFetch(k)
    \/ \E k \in 1..(MaxIds + 1) : FetchResolves(k)

SpecClient == Init /\ [][NextClient]_vars

------------------------------------------------------------------------------
(* The vocabulary of the claims, stated without the program's functions *)

\* The text after the last '/' of a path (the whole path when it has none)
LeafSegment(path) ==
    LET slashes == {i \in DOMAIN path : path[i] = "/"}
    IN  IF slashes = {} THEN path
        ELSE SubSeq(path, (CHOOSE i \in slashes : \A j \in slashes : j <= i) + 1,
                    Len(path))

SameIgnoringCase(s, t) ==
    /\ Len(s) = Len(t)
    /\ \A i \in DOMAIN s : ToLowerChar(s[i]) = ToLowerChar(t[i])

HasFolder(f) == LeafSegment(f.targetFolder) # <<>>

\* The records of the evaluated collection other than the one being updated
CaseOthers == {vcase.filters[i] : i \in {j \in DOMAIN vcase.filters :
                                              vcase.filters[j].id # vcase.id}}

CaseLeaf == LeafSegment(vcase.targetFolder)

\* (1) the candidate's folder leaf is a label of another record
CaseKind1 ==
    /\ CaseLeaf # <<>>
    /\ \E o \in CaseOthers : \E l \in Range(o.labels) : SameIgnoringCase(CaseLeaf, l)

\* (2) a label of the candidate is the folder leaf of another record
CaseKind2 ==
    \E l \in Range(vcase.labels) : \E o \in CaseOthers :
        HasFolder(o) /\ SameIgnoringCase(l, LeafSegment(o.targetFolder))

\* (3) the candidate's folder leaf is one of its own labels
CaseKind3 ==
    /\ CaseLeaf # <<>>
    /\ \E l \in Range(vcase.labels) : SameIgnoringCase(CaseLeaf, l)

ServerRejects == IsError(vcase.server)

FormRejects == vcase.form.error # NoConflict

\* The conflict kind a server message states, in the form's vocabulary
KindOfTemplate(template) ==
    CASE template = "folder conflicts with label of another filter" -> "external-label"
      [] template = "label conflicts with folder of another filter" -> "external-folder"
      [] template = "folder conflicts with label" -> "local"
      [] OTHER -> "null"

------------------------------------------------------------------------------
(* Claims *)

\* C1: in every collection, no record's non-empty folder leaf equals,
\* ignoring case, a label of the same or of any other record of the collection.
FolderLabelNamespace ==
    \A db \in VALID_DATABASES : \A i, j \in DOMAIN files[db] :
        HasFolder(files[db][i]) =>
            \A l \in Range(files[db][j].labels) :
                ~SameIgnoringCase(LeafSegment(files[db][i].targetFolder), l)

\* C1 witness: a collection of two records, one of them filed into a folder
\* and both labelled, reached by an accepted request.
FolderLabelNamespaceWitness ==
    /\ resp.status \in {200, 201}
    /\ \E db \in VALID_DATABASES :
           /\ Len(files[db]) = 2
           /\ \E i \in DOMAIN files[db] : HasFolder(files[db][i])
           /\ \A i \in DOMAIN files[db] : files[db][i].labels # <<>>

\* C2 (as claimed): no two distinct records of a collection have names that
\* are equal ignoring case, whatever name strings were submitted.
NameUniqueness ==
    \A db \in VALID_DATABASES : \A i, j \in DOMAIN files[db] :
        i # j => ~SameIgnoringCase(files[db][i].name, files[db][j].name)

\* C3: a request answered with a 4xx status leaves every collection as it was.
RejectionWritesNothing ==
    [][resp'.status \in {400, 404} => files' = files]_vars

\* C3 witness: an update of an existing record was refused for a folder/label
\* conflict while the collection holds records.
RejectionWitness ==
    /\ resp.op = "put" /\ resp.status = 400 /\ resp.error = "conflict"
    /\ \E db \in VALID_DATABASES : Len(files[db]) = 2

\* C4 (as claimed): when the read of the collection's file fails, the request
\* is answered as a failure and every record persisted before it is still
\* persisted after it.
ReadFailureKeepsRecords ==
    [][resp'.readFailed =>
          /\ resp'.status >= 500
          /\ \A db \in VALID_DATABASES :
                 Range(files[db]) \subseteq Range(files'[db])]_vars

\* C5 (as claimed): form and server give the same decision, the same conflict
\* kind and the same message.
ValidatorsAgree ==
    vcase.done =>
        /\ vcase.form.error = vcase.server
        /\ vcase.form.conflictType = KindOfTemplate(vcase.server.template)

\* C5 (amended): the same decision, the same conflict kind and the same
\* folder named; the label named is the same up to case, and the whole
\* message is the same unless the conflict is folder against another
\* record's label.
ValidatorsAgreeUpToLabelCase ==
    vcase.done =>
        /\ FormRejects <=> ServerRejects
        /\ vcase.form.conflictType = KindOfTemplate(vcase.server.template)
        /\ vcase.form.error.template = vcase.server.template
        /\ vcase.form.error.folder = vcase.server.folder
        /\ SameIgnoringCase(vcase.form.error.label, vcase.server.label)
        /\ vcase.form.conflictType # "external-label" =>
               vcase.form.error = vcase.server

\* C5 witness: both reject the candidate for the same kind of conflict, naming
\* labels that differ in case.
ValidatorsAgreeWitness ==
    /\ vcase.done
    /\ ServerRejects /\ FormRejects
    /\ vcase.form.conflictType = KindOfTemplate(vcase.server.template)
    /\ vcase.form.error.label # vcase.server.label

\* C6: both validators return an error exactly when the candidate collides in
\* one of the three ways.
RejectsExactlyCollisions ==
    vcase.done =>
        /\ ServerRejects <=> (CaseKind1 \/ CaseKind2 \/ CaseKind3)
        /\ FormRejects <=> (CaseKind1 \/ CaseKind2 \/ CaseKind3)
        /\ (vcase.targetFolder = <<>> /\ vcase.labels = <<>>) => ~ServerRejects

\* C6 witness: a candidate rejected only because one of its labels is the
\* folder leaf of another record, and evaluated against two records.
RejectsExactlyCollisionsWitness ==
    /\ vcase.done
    /\ Len(vcase.filters) = 2
    /\ CaseKind2 /\ ~CaseKind1 /\ ~CaseKind3
    /\ ServerRejects /\ FormRejects

\* C7 (as claimed): a candidate one of whose labels equals, ignoring case, the
\* leaf segment of its own folder is rejected whatever the other records.
OwnConflictRejected ==
    (vcase.done /\ \E l \in Range(vcase.labels) : SameIgnoringCase(l, CaseLeaf))
        => (ServerRejects /\ FormRejects)

\* C7 (amended): a candidate one of whose labels equals, ignoring case, the
\* non-empty leaf segment of its own folder is rejected whatever the other
\* records and whichever record is excluded.
OwnConflictRejectedNonEmptyLeaf ==
    (vcase.done /\ CaseKind3) => (ServerRejects /\ FormRejects)

\* C7 witness: an own-label conflict rejected against the empty collection.
OwnConflictWitness ==
    /\ vcase.done
    /\ vcase.filters = <<>>
    /\ CaseKind3
    /\ ServerRejects /\ FormRejects

\* C8: the error surfaced is the first, in the order (1), (2), (3), of the
\* conflicts that exist; so (3) only without (1) and (2), (2) only without (1).
ValidatorPrecedence ==
    vcase.done =>
        LET kind == KindOfTemplate(vcase.server.template)
            first == IF CaseKind1 THEN "external-label"
                     ELSE IF CaseKind2 THEN "external-folder"
                     ELSE IF CaseKind3 THEN "local"
                     ELSE "null"
        IN  /\ kind = first
            /\ vcase.form.conflictType = first
            /\ kind = "local" => (~CaseKind1 /\ ~CaseKind2)
            /\ kind = "external-folder" => ~CaseKind1

\* C8 witness: all three conflicts exist at once.
ValidatorPrecedenceWitness ==
    vcase.done /\ CaseKind1 /\ CaseKind2 /\ CaseKind3

\* The identifiers of the records stored in a collection
IdsOf(filters) == {filters[i].id : i \in DOMAIN filters}

UniqueIds ==
    \A db \in VALID_DATABASES : \A i, j \in DOMAIN files[db] :
        files[db][i].id = files[db][j].id => i = j

CreateAppendsOne ==
    resp'.status = 201 =>
        \E db \in VALID_DATABASES :
            /\ Len(files'[db]) = Len(files[db]) + 1
            /\ SubSeq(files'[db], 1, Len(files[db])) = files[db]
            /\ \A other \in VALID_DATABASES :
                   files'[db][Len(files'[db])].id \notin IdsOf(files[other])
            /\ \A other \in VALID_DATABASES \ {db} : files'[other] = files[other]

SubmittedFields(f) ==
    [name |-> f.name, fromAddresses |-> f.fromAddresses,
     toAddress |-> f.toAddress, expirationDays |-> f.expirationDays,
     markRead |-> f.markRead, addYearLabel |-> f.addYearLabel,
     targetFolder |-> f.targetFolder, labels |-> f.labels]

\* C11: an update answered 200 for identifier i leaves, at the position the
\* record with identifier i had, a record with identifier i, exactly the
\* submitted field values and the time of the request as its timestamp; the
\* number of records, every other record and every other collection are as
\* they were.
UpdateReplacesInPlace ==
    [][(resp'.op = "put" /\ resp'.status = 200) =>
          \A db \in VALID_DATABASES, id \in Ids, body \in ClockBodies :
              (\E readFails \in BOOLEAN : PutFilter(db, id, body, readFails)) =>
                  \E k \in DOMAIN files[db] :
                      /\ files[db][k].id = id
                      /\ Len(files'[db]) = Len(files[db])
                      /\ files'[db][k].id = id
                      /\ SubmittedFields(files'[db][k]) = body
                      /\ files'[db][k].updatedAt = now
                      /\ files'[db][k].updatedAt >= files[db][k].updatedAt
                      /\ \A j \in DOMAIN files[db] \ {k} :
                             files'[db][j] = files[db][j]
                      /\ \A other \in VALID_DATABASES \ {db} :
                             files'[other] = files[other]]_vars

\* C11 witness: the first of two records was updated, to other field values
\* and a later timestamp than the second record's.
UpdateReplacesWitness ==
    /\ resp.op = "put" /\ resp.status = 200
    /\ \E db \in VALID_DATABASES :
           /\ Len(files[db]) = 2
           /\ files[db][1].updatedAt = now
           /\ files[db][1].updatedAt > files[db][2].updatedAt
           /\ SubmittedFields(files[db][1]) = ClockBodyB

\* A candidate (folder, labels) collides with itself or with one of the records
\* others, in one of the three ways of the folder/label namespace
Collides(targetFolder, labels, others) ==
    LET leaf == LeafSegment(targetFolder)
    IN  \/ /\ leaf # <<>>
           /\ \E l \in Range(labels) : SameIgnoringCase(leaf, l)
        \/ /\ leaf # <<>>
           /\ \E o \in others : \E l \in Range(o.labels) : SameIgnoringCase(leaf, l)
        \/ \E l \in Range(labels) : \E o \in others :
               HasFolder(o) /\ SameIgnoringCase(l, LeafSegment(o.targetFolder))

\* The records of a collection other than the one with identifier id
OthersIn(db, id) == {files[db][i] : i \in {j \in DOMAIN files[db] : files[db][j].id # id}}

\* What a refused create or update must have found in the collection db
RefusalFoundIn(db, id, body) ==
    /\ resp'.error = "conflict" =>
           Collides(body.targetFolder, body.labels, OthersIn(db, id))
    /\ resp'.error = "name" =>
           \E o \in OthersIn(db, id) : SameIgnoringCase(o.name, trim(body.name))

\* C12: no create, update or delete addressed to one collection is a step
\* that changes another collection, and a create or update is refused for a
\* conflict or a name only when the addressed collection itself holds a
\* record the candidate collides with.
CollectionsIndependent ==
    [][/\ \A db \in VALID_DATABASES :
             (\E other \in VALID_DATABASES \ {db} : files'[other] # files[other]) =>
                 /\ resp'.op = "post" =>
                        \A body \in SameNameBodies : ~PostFilter(db, body, resp'.readFailed)
                 /\ resp'.op = "put" =>
                        \A id \in Ids, body \in SameNameBodies :
                            ~PutFilter(db, id, body, resp'.readFailed)
                 /\ resp'.op = "delete" =>
                        \A body \in DeleteBodies :
                            ~DeleteFilters(db, body, resp'.readFailed)
       /\ (resp'.op = "post" /\ resp'.error \in {"conflict", "name"}) =>
             \A db \in VALID_DATABASES, body \in SameNameBodies :
                 PostFilter(db, body, resp'.readFailed) =>
                     RefusalFoundIn(db, NoId, body)
       /\ (resp'.op = "put" /\ resp'.error \in {"conflict", "name"}) =>
             \A db \in VALID_DATABASES, id \in Ids, body \in SameNameBodies :
                 PutFilter(db, id, body, resp'.readFailed) =>
                     RefusalFoundIn(db, id, body)]_vars

\* C12 witness: a create was accepted while two collections hold records of
\* the same name, one filed into a folder whose leaf is a label of the other.
CollectionsIndependentWitness ==
    /\ resp.op = "post" /\ resp.status = 201
    /\ \E d1, d2 \in VALID_DATABASES :
           /\ d1 # d2
           /\ \E i \in DOMAIN files[d1], j \in DOMAIN files[d2] :
                  /\ SameIgnoringCase(files[d1][i].name, files[d2][j].name)
                  /\ HasFolder(files[d1][i])
                  /\ \E l \in Range(files[d2][j].labels) :
                         SameIgnoringCase(LeafSegment(files[d1][i].targetFolder), l)

\* The text of a positive integer: digits only, the first of them not 0
PositiveInteger(number) ==
    /\ number # <<>>
    /\ \A i \in DOMAIN number :
           number[i] \in {"0", "1", "2", "3", "4", "5", "6", "7", "8", "9"}
    /\ number[1] # "0"

\* C13 (as claimed): the expiration of every record persisted through the
\* form's save path is null or a positive integer number of days.
ExpirationPositive ==
    \A db \in VALID_DATABASES : \A i \in DOMAIN files[db] :
        \/ files[db][i].expirationDays = Null
        \/ PositiveInteger(files[db][i].expirationDays)

------------------------------------------------------------------------------
(* The vocabulary of the claims about a generated script, read off its text *)

\* The parts of a text between the pieces equal to sep
RECURSIVE SplitOn(_, _, _)
SplitOn(text, sep, part) ==
    IF text = <<>> THEN <<part>>
    ELSE IF Head(text) = sep THEN <<part>> \o SplitOn(Tail(text), sep, <<>>)
    ELSE SplitOn(Tail(text), sep, Append(part, Head(text)))

ScriptLines == SplitOn(vcase.script, "\n", <<>>)

LinesStartingWith(pieces) ==
    SelectSeq(ScriptLines, LAMBDA line : line # <<>> /\ line[1] \in pieces)

\* The require statements of the script
RequireLines == LinesStartingWith({"require ["})

\* The extensions a require statement declares
Declared == {"fileinto", "imap4flags", "vnd.proton.expire"} \cap Range(RequireLines[1])

\* The if lines of the script
GuardLines == LinesStartingWith({"if allof (", "if true {"})

\* The conditions of the allof guard, in order
GuardConditions ==
    SplitOn(SubSeq(GuardLines[1], 2, Len(GuardLines[1]) - 1), ",\n       ", <<>>)

NotDeletedTest == <<"not hasflag \"\\\\Deleted\"">>

\* The action of each indented line: its command and its quoted argument
ActionOf(line) ==
    LET kind == CASE line[2] = "expire \"day\" \"" -> "expire"
                  [] line[2] = "addflag \"\\\\Seen\";" -> "addflag"
                  [] line[2] = "fileinto \"" -> "fileinto"
                  [] line[2] = "stop;" -> "stop"
                  [] line[2] = "keep;" -> "keep"
                  [] OTHER -> "other"
    IN  [kind |-> kind,
         arg |-> IF kind \in {"expire", "fileinto"}
                 THEN SubSeq(line, 3, Len(line) - 1) ELSE <<>>]

\* The actions of the script body, in order
ScriptActions ==
    LET body == LinesStartingWith({"    "})
    IN  [i \in DOMAIN body |-> ActionOf(body[i])]

ActionKinds == [i \in DOMAIN ScriptActions |-> ScriptActions[i].kind]

\* The record has something to file: a folder, a label, or the year label
HasFiling(f) == f.targetFolder # <<>> \/ f.labels # <<>> \/ f.addYearLabel

\* C14: the script has one require statement; it declares fileinto exactly
\* when the folder is set or there is an effective label, imap4flags always,
\* vnd.proton.expire exactly when the expiration is not null; and each
\* extension is declared exactly when the body uses it.
RequiredExtensions ==
    vcase.done =>
        LET declared == Declared
            used == Range(ActionKinds)
        IN  /\ Len(RequireLines) = 1
            /\ "fileinto" \in declared <=> HasFiling(vcase.filter)
            /\ "imap4flags" \in declared
            /\ "vnd.proton.expire" \in declared <=>
                   vcase.filter.expirationDays # Null
            /\ "fileinto" \in declared <=> "fileinto" \in used
            /\ "vnd.proton.expire" \in declared <=> "expire" \in used
            /\ "imap4flags" \in declared <=>
                   (NotDeletedTest[1] \in Range(GuardLines[1]) \/ "addflag" \in used)

\* C14 witness: a record with an expiration and without folder or labels,
\* whose year label alone makes fileinto required.
RequiredExtensionsWitness ==
    /\ vcase.done
    /\ vcase.filter.targetFolder = <<>> /\ vcase.filter.labels = <<>>
    /\ vcase.filter.addYearLabel
    /\ Declared = {"fileinto", "imap4flags", "vnd.proton.expire"}

\* The actions the claim lists before the terminator, in its order
ListedActions(f, year) ==
    (IF f.expirationDays # Null
     THEN <<[kind |-> "expire", arg |-> f.expirationDays]>> ELSE <<>>)
        \o (IF f.markRead THEN <<[kind |-> "addflag", arg |-> <<>>]>> ELSE <<>>)
        \o [i \in DOMAIN f.labels |-> [kind |-> "fileinto", arg |-> f.labels[i]]]
        \o (IF f.addYearLabel /\ year \notin Range(f.labels)
            THEN <<[kind |-> "fileinto", arg |-> year]>> ELSE <<>>)
        \o (IF f.targetFolder # <<>>
            THEN <<[kind |-> "fileinto", arg |-> f.targetFolder]>> ELSE <<>>)

\* C15: the actions are, in this order: expire (if set), addflag Seen (if
\* mark-as-read), one fileinto per label in the list's order, the year label
\* (if added) after them, the folder's fileinto (if set), and last the
\* terminating stop or keep.
ActionOrder ==
    vcase.done =>
        LET acts == ScriptActions
        IN  /\ Len(acts) >= 1
            /\ SubSeq(acts, 1, Len(acts) - 1) =
                   ListedActions(vcase.filter, vcase.clock.year)
            /\ acts[Len(acts)].kind \in {"stop", "keep"}

\* C15 witness: every kind of action at once, the year label added to a label.
ActionOrderWitness ==
    /\ vcase.done
    /\ ActionKinds = <<"expire", "addflag", "fileinto", "fileinto", "fileinto", "stop">>
    /\ ScriptActions[4].arg = vcase.clock.year
    /\ ScriptActions[5].arg = vcase.filter.targetFolder

\* C16: the script has exactly one terminating action; it is stop exactly
\* when a fileinto was emitted, which is when the folder is set or there is
\* an effective label, and keep otherwise; a stop has a fileinto before it.
TerminatorRule ==
    vcase.done =>
        LET kinds == ActionKinds
            ends == {i \in DOMAIN kinds : kinds[i] \in {"stop", "keep"}}
            stops == {i \in DOMAIN kinds : kinds[i] = "stop"}
            filings == {i \in DOMAIN kinds : kinds[i] = "fileinto"}
        IN  /\ Cardinality(ends) = 1
            /\ stops # {} <=> filings # {}
            /\ stops # {} <=> HasFiling(vcase.filter)
            /\ \A i \in stops : \E j \in filings : j < i

\* C16 witness: a script that expires and marks as read, files nothing, and
\* ends with keep.
TerminatorRuleWitness ==
    /\ vcase.done
    /\ ActionKinds = <<"expire", "addflag", "keep">>

\* C17: the guard is one allof whose first condition is the not-deleted
\* test, followed by a from-condition exactly when the from list is not
\* empty, and then by the exact-match to-condition exactly when a to address
\* is set; there is no "if true".
NeverUnconditional ==
    vcase.done =>
        LET f == vcase.filter
            hasFrom == f.fromAddresses # <<>>
            hasTo == f.toAddress # <<>>
            guard == GuardConditions
            n == Len(guard)
        IN  /\ Len(GuardLines) = 1
            /\ GuardLines[1][1] = "if allof ("
            /\ "if true {" \notin Range(vcase.script)
            /\ guard[1] = NotDeletedTest
            /\ n = 1 + (IF hasFrom THEN 1 ELSE 0) + (IF hasTo THEN 1 ELSE 0)
            /\ hasFrom =>
                   guard[2][1] \in
                       {"anyof (", "address :is \"from\" \"", "address :is \"from\" [",
                        "address :domain :contains \"from\" \""}
            /\ hasTo =>
                   guard[n] =
                       <<"address :is \"to\" \"">> \o f.toAddress \o <<"\"">>

\* C17 witness: a record without from and to conditions that files into a
\* folder, guarded by the not-deleted test alone.
NeverUnconditionalWitness ==
    /\ vcase.done
    /\ vcase.filter.fromAddresses = <<>> /\ vcase.filter.toAddress = <<>>
    /\ vcase.filter.targetFolder # <<>>
    /\ GuardConditions = <<NotDeletedTest>>

\* The from-condition the claim describes for a list of patterns
ListedFromCondition(patterns) ==
    LET full == SelectSeq(patterns, LAMBDA q : "@" \in Range(q))
        bare == SelectSeq(patterns, LAMBDA q : "@" \notin Range(q))
        isTest == IF full = <<>> THEN <<>>
                  ELSE IF Len(full) = 1
                  THEN << <<"address :is \"from\" ">> \o Quote(full[1]) >>
                  ELSE << <<"address :is \"from\" ", "[">>
                              \o Join([i \in DOMAIN full |-> Quote(full[i])], ", ")
                              \o <<"]">> >>
        tests == isTest \o [i \in DOMAIN bare |->
                                <<"address :domain :contains \"from\" ">>
                                    \o Quote(bare[i])]
    IN  IF Len(tests) = 1 THEN tests[1]
        ELSE <<"anyof ", "(">> \o Join(tests, ", ") \o <<")">>

\* A text with its pieces cut at the same places as those of the claims
RECURSIVE Recut(_)
Recut(text) ==
    IF text = <<>> THEN <<>>
    ELSE (CASE Head(text) = "address :is \"from\" \"" ->
                   <<"address :is \"from\" ", "\"">>
            [] Head(text) = "address :is \"from\" [" ->
                   <<"address :is \"from\" ", "[">>
            [] Head(text) = "address :domain :contains \"from\" \"" ->
                   <<"address :domain :contains \"from\" ", "\"">>
            [] Head(text) = "anyof (" -> <<"anyof ", "(">>
            [] OTHER -> <<Head(text)>>) \o Recut(Tail(text))

\* C18: the patterns containing "@" make one :is test (a quoted string for
\* one address, a bracketed list for several), each pattern without "@" makes
\* its own :domain :contains test, and anyof wraps them exactly when there
\* is more than one test.
FromConditionShape ==
    (vcase.done /\ vcase.filter.fromAddresses # <<>>) =>
        LET patterns == vcase.filter.fromAddresses
            full == {i \in DOMAIN patterns : "@" \in Range(patterns[i])}
            tests == (IF full = {} THEN 0 ELSE 1) + Len(patterns) - Cardinality(full)
            from == GuardConditions[2]
        IN  /\ Recut(from) = ListedFromCondition(patterns)
            /\ "anyof (" \in Range(vcase.script) <=> tests > 1
            /\ (Cardinality(full) >= 2 /\ Cardinality(full) = Len(patterns)) =>
                   from[1] = "address :is \"from\" ["
            /\ Len(patterns) = 1 =>
                   from[1] \in
                       {"address :is \"from\" \"",
                        "address :domain :contains \"from\" \""}

\* C18 witness: two full addresses and no domain pattern, rendered as one
\* :is test with a bracketed list and no anyof.
FromConditionShapeWitness ==
    /\ vcase.done
    /\ Len(vcase.filter.fromAddresses) = 2
    /\ \A i \in DOMAIN vcase.filter.fromAddresses :
           "@" \in Range(vcase.filter.fromAddresses[i])
    /\ vcase.filter.fromAddresses[1] # vcase.filter.fromAddresses[2]
    /\ GuardConditions[2][1] = "address :is \"from\" ["
    /\ "anyof (" \notin Range(vcase.script)

\* What scenario B expects of the script
NewsletterDomainTestAndKeep ==
    /\ GuardConditions =
           <<NotDeletedTest,
             <<"address :domain :contains \"from\" \"">> \o NewsletterDomain \o <<"\"">> >>
    /\ ActionKinds = <<"keep">>

\* C19 (as claimed): for the record whose only from pattern is
\* "@newsletter.com" and that has no folder, labels or flags, the condition
\* is address :domain :contains "from" "newsletter.com" and the only action
\* is keep.
ScenarioBWithAt ==
    (vcase.done
        /\ SubmittedFields(vcase.filter) = ScenarioB(<<"@">> \o NewsletterDomain))
            => NewsletterDomainTestAndKeep

\* C19 (amended): for the record whose only from pattern is "newsletter.com",
\* written without "@", and that has no folder, labels or flags, the
\* condition is address :domain :contains "from" "newsletter.com" and the
\* only action is keep; written "@newsletter.com" the pattern is matched as
\* a full address, with address :is "from" "@newsletter.com".
ScenarioBBareDomain ==
    /\ (vcase.done /\ SubmittedFields(vcase.filter) = ScenarioB(NewsletterDomain))
           => NewsletterDomainTestAndKeep
    /\ (vcase.done
           /\ SubmittedFields(vcase.filter) = ScenarioB(<<"@">> \o NewsletterDomain))
               => /\ GuardConditions =
                         <<NotDeletedTest,
                           <<"address :is \"from\" \"", "@">> \o NewsletterDomain
                               \o <<"\"">> >>
                  /\ ActionKinds = <<"keep">>

\* C19 witness: the script of the record with the bare domain was generated.
ScenarioBWitness ==
    /\ vcase.done
    /\ SubmittedFields(vcase.filter) = ScenarioB(NewsletterDomain)
    /\ ActionKinds = <<"keep">>

\* C20: for the record of scenario A the script requires exactly fileinto and
\* imap4flags, its guard is allof(not-deleted test, address :is "from"
\* "boss@example.com"), and its actions are addflag Seen, fileinto "Work",
\* stop, in this order and nothing else.
ScenarioAScript ==
    (vcase.done /\ SubmittedFields(vcase.filter) = ScenarioA) =>
        /\ Len(RequireLines) = 1
        /\ RequireLines[1] =
               <<"require [", "\"", "fileinto", "\"", ", ", "\"", "imap4flags", "\"", "];">>
        /\ Len(GuardLines) = 1
        /\ GuardLines[1][1] = "if allof ("
        /\ GuardConditions =
               <<NotDeletedTest,
                 <<"address :is \"from\" \"">> \o ScenarioA.fromAddresses[1] \o <<"\"">> >>
        /\ ScriptActions =
               <<[kind |-> "addflag", arg |-> <<>>],
                 [kind |-> "fileinto", arg |-> <<"W", "o", "r", "k">>],
                 [kind |-> "stop", arg |-> <<>>]>>

\* C20 witness: the script of the record of scenario A was generated.
ScenarioAWitness ==
    /\ vcase.done
    /\ SubmittedFields(vcase.filter) = ScenarioA
    /\ Len(ScriptActions) = 3

\* C21: for a record with addYearLabel set whose labels (a list without
\* repetitions) already hold the current year, the script files into the
\* year label exactly once, and has one fileinto per label and no more.
YearLabelOnce ==
    (vcase.done /\ vcase.filter.addYearLabel
        /\ vcase.clock.year \in Range(vcase.filter.labels)) =>
        LET acts == ScriptActions
            yearly == {i \in DOMAIN acts :
                           acts[i].kind = "fileinto" /\ acts[i].arg = vcase.clock.year}
            filings == {i \in DOMAIN acts : acts[i].kind = "fileinto"}
        IN  /\ Cardinality(yearly) = 1
            /\ Cardinality(filings) =
                   Len(vcase.filter.labels)
                       + (IF vcase.filter.targetFolder # <<>> THEN 1 ELSE 0)

\* C21 witness: the year is the first of two labels of a record with
\* addYearLabel set, and the script files into two labels.
YearLabelOnceWitness ==
    /\ vcase.done
    /\ vcase.filter.addYearLabel
    /\ Len(vcase.filter.labels) = 2
    /\ vcase.filter.labels[1] = vcase.clock.year
    /\ vcase.filter.targetFolder = <<>>
    /\ Len(SelectSeq(ActionKinds, LAMBDA kind : kind = "fileinto")) = 2

\* The minimally configured record
MinimalRecord ==
    [name |-> <<"A">>,
     fromAddresses |-> <<>>,
     toAddress |-> <<>>,
     expirationDays |-> Null,
     markRead |-> FALSE,
     addYearLabel |-> FALSE,
     targetFolder |-> <<>>,
     labels |-> <<>>]

\* C22: for the minimal record the generator returns a script with its two
\* comment lines, that declares only imap4flags, whose guard is the
\* not-deleted test alone and whose only action is keep.
MinimalScript ==
    (vcase.done /\ SubmittedFields(vcase.filter) = MinimalRecord) =>
        /\ ScriptLines[1] = <<"# Filter: ">> \o vcase.filter.name
        /\ ScriptLines[2][1] = "# Generated: "
        /\ RequireLines = << <<"require [", "\"", "imap4flags", "\"", "];">> >>
        /\ Len(GuardLines) = 1
        /\ GuardLines[1][1] = "if allof ("
        /\ GuardConditions = <<NotDeletedTest>>
        /\ ScriptActions = <<[kind |-> "keep", arg |-> <<>>]>>

\* C22 witness: the script of the minimal record was generated and is the
\* seven lines from the comment to the closing brace, with a final line feed.
MinimalScriptWitness ==
    /\ vcase.done
    /\ SubmittedFields(vcase.filter) = MinimalRecord
    /\ Len(ScriptLines) = 9
    /\ ScriptLines[8] = <<"}">>

FormBlocksSubmission ==
    /\ [](vcase # NoCase =>
            LET conflict == IsError(formValidation(vcase.formState.targetFolder,
                                                   vcase.formState.labels,
                                                   files[vcase.database],
                                                   vcase.id).error)
                duplicate == formNameError(vcase.formState.name,
                                 existingFilterNames(files[vcase.database], vcase.id))
            IN  (conflict \/ duplicate \/ vcase.inFlight # <<>>) => saveDisabled(vcase))
    /\ [][(vcase # NoCase /\ vcase' # NoCase
              /\ Len(vcase'.inFlight) > Len(vcase.inFlight)) =>
            /\ ~IsError(formValidation(vcase.formState.targetFolder,
                                       vcase.formState.labels,
                                       files[vcase.database], vcase.id).error)
            /\ ~formNameError(vcase.formState.name,
                              existingFilterNames(files[vcase.database], vcase.id))
            /\ vcase.inFlight = <<>>]_vars

\* C25 witness: the form of a new filter, next to a stored record, has sent
\* one save, which the server has answered and whose promise has not settled.
FormBlocksSubmissionWitness ==
    /\ vcase # NoCase
    /\ vcase.id = NoId
    /\ vcase.saving
    /\ Len(vcase.inFlight) = 1
    /\ vcase.formState.name = <<"w">>
    /\ resp.op = "post"
    /\ Len(files[vcase.database]) = 1
    /\ files[vcase.database][1].name = <<"A">>

\* C26: an update that submits, for an identifier of the collection, the
\* field values the record with that identifier has is answered 200.
ResaveAccepted ==
    [][\A db \in VALID_DATABASES, id \in Ids :
           LET index == findIndex(files[db], id)
           IN  (index # 0 /\ resp'.op = "put"
                   /\ PutFilter(db, id, SubmittedFields(files[db][index]), FALSE))
                   => resp'.status = 200]_vars

\* C27: from one collection, creating a and then b is answered 201 twice
\* exactly when creating b and then a is answered 201 twice.
OrderIndependent ==
    vcase.done =>
        (vcase.ab.statuses = <<201, 201>>) = (vcase.ba.statuses = <<201, 201>>)

\* C28: in the script of a stored record with a folder, no fileinto of a label
\* (every fileinto but the last) names, ignoring case, the leaf segment of
\* the folder that the last fileinto names.
NamespaceInScript ==
    (vcase.done /\ vcase.filter.targetFolder # <<>>) =>
        LET acts == ScriptActions
            filings == SelectSeq(acts, LAMBDA a : a.kind = "fileinto")
            leaf == LeafSegment(filings[Len(filings)].arg)
        IN  \A i \in 1..(Len(filings) - 1) :
                ~SameIgnoringCase(filings[i].arg, leaf)

\* C29: once the create requests have all completed, the record of every
\* request answered 201 is in the persisted collection.
NoCreateLost ==
    (vcase.done /\ \A k \in DOMAIN vcase.posts : vcase.posts[k].pc = "done") =>
        \A k \in DOMAIN vcase.posts :
            vcase.posts[k].status = 201 =>
                \E i \in DOMAIN files["user1"] :
                    files["user1"][i].id = vcase.posts[k].id

\* C30: once every fetchFilters call has completed, the list on screen is the
\* collection of the selected database.
ListTracksDatabase ==
    (vcase.done /\ \A k \in DOMAIN vcase.fetches : vcase.fetches[k].pc = "done") =>
        vcase.filters = files[vcase.database]

====
